---- MODULE Spec2Model ----
(***************************************************************************)
(* Model of Backend/main.py: the three FastAPI handlers search_ticker,     *)
(* get_free_cash_flow and get_valuation.  Each handler is one action: it   *)
(* draws what the data provider answers for the request (raw) and sets     *)
(* the response (out) exactly as the handler's code computes it.           *)
(*                                                                         *)
(* Floats are modelled as extended rationals: a record [k, n, d] with      *)
(* k = "num" (the rational n/d in lowest terms, d > 0), "pinf", "ninf" or  *)
(* "nan", with the IEEE-754 rules for the special values.  Rounding error  *)
(* of binary floating point is not modelled.  Provider cells that are not  *)
(* floats use the further kinds "absent" (key or row not there), "null"    *)
(* (None), "bad" (a non-numeric object) and "raise" (the read raises).     *)
(***************************************************************************)
EXTENDS Integers, Sequences, FiniteSets, TLC

VARIABLES endpoint, raw, out

vars == <<endpoint, raw, out>>

----------------------------------------------------------------------------
(* Extended rational arithmetic (Python / numpy float semantics).          *)

Abs(x) == IF x < 0 THEN -x ELSE x

Sign(x) == IF x < 0 THEN -1 ELSE IF x > 0 THEN 1 ELSE 0

RECURSIVE GCD(_, _)
GCD(a, b) == IF b = 0 THEN a ELSE GCD(b, a % b)

Special(kind) == [k |-> kind, n |-> 0, d |-> 1]

NaN == Special("nan")
PInf == Special("pinf")
NInf == Special("ninf")
Absent == Special("absent")
Null == Special("null")
Bad == Special("bad")
Raise == Special("raise")

\* the rational n/d (d # 0) in lowest terms with a positive denominator
Q(n, d) ==
    LET g == GCD(Abs(n), Abs(d))
        s == IF d < 0 THEN -1 ELSE 1
    IN  [k |-> "num", n |-> s * (n \div g), d |-> s * (d \div g)]

Zero == Q(0, 1)
One == Q(1, 1)

IsInf(a) == a.k \in {"pinf", "ninf"}
IsFloat(a) == a.k \in {"num", "pinf", "ninf", "nan"}

\* math.isnan
IsNan(a) == a.k = "nan"

\* math.isfinite
IsFinite(a) == a.k = "num"

\* sign of a float that is not NaN
SignOf(a) == IF a.k = "pinf" THEN 1 ELSE IF a.k = "ninf" THEN -1 ELSE Sign(a.n)

InfOfSign(s) == IF s > 0 THEN PInf ELSE NInf

Neg(a) ==
    IF a.k = "num" THEN Q(-a.n, a.d)
    ELSE IF a.k = "pinf" THEN NInf
    ELSE IF a.k = "ninf" THEN PInf
    ELSE a

Add(a, b) ==
    IF IsNan(a) \/ IsNan(b) THEN NaN
    ELSE IF IsInf(a) /\ IsInf(b) THEN (IF a.k = b.k THEN a ELSE NaN)
    ELSE IF IsInf(a) THEN a
    ELSE IF IsInf(b) THEN b
    ELSE LET g == GCD(a.d, b.d)
         IN  Q(a.n * (b.d \div g) + b.n * (a.d \div g), (a.d \div g) * b.d)

Sub(a, b) == Add(a, Neg(b))

Mul(a, b) ==
    IF IsNan(a) \/ IsNan(b) THEN NaN
    ELSE IF IsInf(a) \/ IsInf(b)
         THEN (IF SignOf(a) * SignOf(b) = 0 THEN NaN
               ELSE InfOfSign(SignOf(a) * SignOf(b)))
    ELSE LET g1 == GCD(Abs(a.n), b.d)
             g2 == GCD(Abs(b.n), a.d)
         IN  Q((a.n \div g1) * (b.n \div g2), (a.d \div g2) * (b.d \div g1))

\* IEEE division, as numpy and pandas divide: x/0 is an infinity, 0/0 is NaN.
\* (Python's own float division raises on a zero divisor; the handler only
\* divides Python floats behind a "> 0" test of the divisor.)
Div(a, b) ==
    IF IsNan(a) \/ IsNan(b) THEN NaN
    ELSE IF IsInf(a) /\ IsInf(b) THEN NaN
    ELSE IF IsInf(a) THEN InfOfSign(SignOf(a) * (IF SignOf(b) < 0 THEN -1 ELSE 1))
    ELSE IF IsInf(b) THEN Zero
    ELSE IF b.n = 0 THEN (IF a.n = 0 THEN NaN ELSE InfOfSign(a.n))
    ELSE Mul(a, Q(b.d, b.n))

\* a < b on floats: every comparison with NaN is false
Lt(a, b) ==
    IF IsNan(a) \/ IsNan(b) THEN FALSE
    ELSE IF a.k = "pinf" \/ b.k = "ninf" THEN FALSE
    ELSE IF a.k = "ninf" \/ b.k = "pinf" THEN TRUE
    ELSE a.n * b.d < b.n * a.d

Le(a, b) == Lt(a, b) \/ (~IsNan(a) /\ ~IsNan(b) /\ a = b)

\* Python's builtin min(a, b): a unless b < a;  max(a, b): a unless b > a
PyMin(a, b) == IF Lt(b, a) THEN b ELSE a
PyMax(a, b) == IF Lt(a, b) THEN b ELSE a

\* Python truthiness of a provider cell: None and 0 are falsy, NaN is truthy
Truthy(v) == IF v.k = "null" THEN FALSE ELSE IF v.k = "num" THEN v.n # 0 ELSE TRUE

----------------------------------------------------------------------------
(* Outcomes of a handler.                                                  *)

\* a normal return: FastAPI answers 200 with the returned body
Return(body) == [kind |-> "ok", status |-> 200, detail |-> "", body |-> body]

\* raise HTTPException(status_code = status, detail = detail)
HTTPException(status, detail) ==
    [kind |-> "http", status |-> status, detail |-> detail, body |-> <<>>]

\* any other Exception propagating out of the code that raised it
Exception == [kind |-> "exception", status |-> 0, detail |-> "", body |-> <<>>]

\* the except clauses that end get_free_cash_flow and get_valuation:
\*   except HTTPException: raise
\*   except Exception: raise HTTPException(status_code=500, detail=...)
ExceptClauses_Rewrap(res, detail) ==
    IF res.kind \in {"exception", "http"} THEN HTTPException(500, detail) ELSE res

ExceptClauses(res, detail) ==
    IF res.kind = "exception" THEN HTTPException(500, detail) ELSE res

----------------------------------------------------------------------------
(* pandas helpers on a statement row: a sequence of [date, val] entries,   *)
(* one per period column, in the provider's column order.                  *)

\* Series.dropna(): the entries whose value is not missing
dropna_KeepAll(row) == row

dropna(row) == SelectSeq(row, LAMBDA e : ~IsNan(e.val))

RECURSIVE InsertByDate(_, _)
InsertByDate(e, s) ==
    IF s = <<>> THEN <<e>>
    ELSE IF e.date < Head(s).date THEN <<e>> \o s
    ELSE <<Head(s)>> \o InsertByDate(e, Tail(s))

\* Series.sort_index(): ascending by period date
RECURSIVE sort_index(_)
sort_index(row) ==
    IF row = <<>> THEN <<>> ELSE InsertByDate(Head(row), sort_index(Tail(row)))

\* Series.pct_change(): NaN for the first entry, then value[t]/value[t-1] - 1
pct_change(s) ==
    [i \in 1..Len(s) |->
        [date |-> s[i].date,
         val  |-> IF i = 1 THEN NaN ELSE Sub(Div(s[i].val, s[i-1].val), One)]]

RECURSIVE SumVals(_)
SumVals(s) == IF s = <<>> THEN Zero ELSE Add(Head(s).val, SumVals(Tail(s)))

\* Series.mean() of a non-empty series without missing values
mean(s) == Div(SumVals(s), Q(Len(s), 1))

----------------------------------------------------------------------------
(* get_valuation, lines 72-178.                                            *)

\* dict.get(key, default): the default only when the key is not there
dict_get(field, default) == IF field.k = "absent" THEN default ELSE field

\* float(x): raises on None and on a non-numeric object
to_float(x) == IF x.k \in {"null", "bad", "raise"} THEN Raise ELSE x

\* stock.info or {}
EmptyInfo ==
    [k |-> "dict", currentPrice |-> Absent, previousClose |-> Absent,
     sharesOutstanding |-> Absent, impliedSharesOutstanding |-> Absent,
     beta |-> Absent]

info_or_empty(info) == IF info.k = "dict" THEN info ELSE EmptyInfo

\* Line 88.  Python evaluates the arguments of a call before the call, so the
\* innermost stock.fast_info.get(...) runs first, whatever info holds.
current_price(info, fast_info) ==
    IF fast_info.lastPrice.k = "raise" THEN Raise
    ELSE to_float(dict_get(info.currentPrice,
                  dict_get(info.previousClose,
                  dict_get(fast_info.lastPrice, Q(100, 1)))))

\* Line 89.
shares_outstanding(info, fast_info) ==
    IF fast_info.shares.k = "raise" THEN Raise
    ELSE to_float(dict_get(info.sharesOutstanding,
                  dict_get(info.impliedSharesOutstanding,
                  dict_get(fast_info.shares, Q(1000000, 1)))))

\* float(val) if val and not math.isnan(val) else 0.0
float_or_zero(val) == IF Truthy(val) /\ ~IsNan(val) THEN val ELSE Zero

\* Lines 95-96: the defaults the optional reads start from
StatementDefaults ==
    [total_cash |-> Zero, total_debt |-> Zero,
     cost_of_debt |-> Q(5, 100), tax_rate |-> Q(21, 100), raised |-> FALSE]

Raised(s) == [s EXCEPT !.raised = TRUE]

\* Lines 99-103
read_cash(bs, s) ==
    IF s.raised THEN s
    ELSE IF bs.k = "raise" THEN Raised(s)
    ELSE IF bs.k # "rows" \/ bs.cash.k = "absent" THEN s
    ELSE IF bs.cash.k = "raise" THEN Raised(s)
    ELSE [s EXCEPT !.total_cash = float_or_zero(bs.cash)]

\* Lines 104-106
read_debt(bs, s) ==
    IF s.raised THEN s
    ELSE IF bs.k # "rows" \/ bs.debt.k = "absent" THEN s
    ELSE IF bs.debt.k = "raise" THEN Raised(s)
    ELSE [s EXCEPT !.total_debt = float_or_zero(bs.debt)]

\* Lines 108-113
read_interest_expense(inc, s) ==
    IF s.raised THEN s
    ELSE IF inc.k = "raise" THEN Raised(s)
    ELSE IF inc.k # "rows" \/ inc.ie.k = "absent" \/ ~Lt(Zero, s.total_debt) THEN s
    ELSE IF inc.ie.k = "raise" THEN Raised(s)
    ELSE IF Truthy(inc.ie) /\ ~IsNan(inc.ie)
         THEN [s EXCEPT !.cost_of_debt = Div(inc.ie, s.total_debt)]
    ELSE s

\* Lines 114-118
read_tax_rate(inc, s) ==
    IF s.raised THEN s
    ELSE IF inc.k # "rows" \/ inc.tp.k = "absent" \/ inc.pi.k = "absent" THEN s
    ELSE IF inc.tp.k = "raise" \/ inc.pi.k = "raise" THEN Raised(s)
    ELSE IF /\ Truthy(inc.tp) /\ Truthy(inc.pi) /\ Lt(Zero, inc.pi)
            /\ ~IsNan(inc.tp) /\ ~IsNan(inc.pi)
         THEN [s EXCEPT !.tax_rate = Div(inc.tp, inc.pi)]
    ELSE s

\* Lines 98-120: one try block around all four reads; "except Exception: pass"
\* leaves every local as it was when the exception was raised.
optional_statements(bs, inc) ==
    read_tax_rate(inc,
      read_interest_expense(inc,
        read_debt(bs,
          read_cash(bs, StatementDefaults))))

\* Lines 122-124.  math.isnan raises TypeError on a non-numeric beta.
beta_used(info) ==
    LET b == dict_get(info.beta, One)
    IN  IF b.k = "null" THEN One
        ELSE IF b.k = "bad" THEN Raise
        ELSE IF IsNan(b) THEN One
        ELSE b

\* Line 126: a literal; the handler fetches no proxy quote
risk_free_rate == Q(42, 1000)

\* Line 127
expected_market_return == Q(10, 100)

\* Line 128
cost_of_equity(rf, beta) == Add(rf, Mul(beta, Sub(expected_market_return, rf)))

\* Lines 130-134
wacc_unclamped(market_cap, total_debt, coe, cod, tax_rate) ==
    LET total_capital == Add(market_cap, total_debt)
        weight_equity == IF Lt(Zero, total_capital)
                         THEN Div(market_cap, total_capital) ELSE One
        weight_debt   == IF Lt(Zero, total_capital)
                         THEN Div(total_debt, total_capital) ELSE Zero
    IN  Add(Mul(weight_equity, coe),
            Mul(Mul(weight_debt, cod), Sub(One, tax_rate)))

\* Line 135: wacc = max(0.06, min(wacc, 0.15))
clamp_wacc_NoFloor(w) == PyMin(w, Q(15, 100))

clamp_wacc(w) == PyMax(Q(6, 100), PyMin(w, Q(15, 100)))

\* Lines 137-140
avg_growth(fcf_series) ==
    LET growth_rates == dropna(pct_change(fcf_series))
        avg == IF growth_rates # <<>> THEN mean(growth_rates) ELSE Q(5, 100)
    IN  IF IsNan(avg) THEN Q(5, 100) ELSE avg

\* Line 142: g = max(0.02, min(avg_growth, 0.15))
clamp_growth_NoFloor(a) == PyMin(a, Q(15, 100))

clamp_growth(a) == PyMax(Q(2, 100), PyMin(a, Q(15, 100)))

\* Line 147
perpetual_growth == Q(25, 1000)

\* Lines 93-171, entered once price and shares are resolved.  The projection,
\* discounting and rounding of lines 145 and 152-171 raise nothing and feed no
\* local read here, so the body keeps the locals up to the terminal-value
\* denominator of line 152.
valuation_body(r, fcf_series, price, shares) ==
    LET info == info_or_empty(r.info)
        market_cap == Mul(price, shares)
        st == optional_statements(r.balance_sheet, r.income_stmt)
        beta == beta_used(info)
        rf == risk_free_rate
        coe == cost_of_equity(rf, beta)
        w0 == wacc_unclamped(market_cap, st.total_debt, coe,
                             st.cost_of_debt, st.tax_rate)
        w1 == clamp_wacc(w0)
        avg == avg_growth(fcf_series)
        g == clamp_growth(avg)
        guard == Le(w1, perpetual_growth)
        wacc == IF guard THEN Add(perpetual_growth, Q(1, 100)) ELSE w1
    IN  IF beta.k = "raise" THEN Exception
        ELSE Return([current_price |-> price, shares |-> shares,
                     total_cash |-> st.total_cash, total_debt |-> st.total_debt,
                     cost_of_debt |-> st.cost_of_debt, tax_rate |-> st.tax_rate,
                     beta |-> beta, risk_free_rate |-> rf,
                     wacc_unclamped |-> w0, wacc |-> wacc,
                     avg_growth |-> avg, g |-> g,
                     last_fcf |-> fcf_series[Len(fcf_series)].val,
                     guard_taken |-> guard,
                     tv_denominator |-> Sub(wacc, perpetual_growth)])

\* Lines 76-171: the body of the try block
valuation_try(r) ==
    IF r.cashflow.k = "raise" THEN Exception
    ELSE IF r.cashflow.k \in {"none", "empty", "norow"}
         THEN HTTPException(404, "No Free Cash Flow data found.")
    ELSE LET fcf_series == sort_index(dropna(r.cashflow.row))
         IN  IF fcf_series = <<>>
             THEN HTTPException(404, "Free Cash Flow data is empty.")
             ELSE IF r.info.k = "raise" THEN Exception
             ELSE LET info == info_or_empty(r.info)
                      price == current_price(info, r.fast_info)
                      shares == shares_outstanding(info, r.fast_info)
                  IN  IF price.k = "raise" \/ shares.k = "raise"
                      THEN HTTPException(404, "Missing core pricing data.")
                      ELSE valuation_body(r, fcf_series, price, shares)

\* Lines 72-178
get_valuation_response(r) ==
    ExceptClauses(valuation_try(r), "Calculation blocked or failed.")

----------------------------------------------------------------------------
(* get_free_cash_flow, lines 53-69.                                        *)

\* Lines 57-64.  str(date.date()) needs period labels that are timestamps;
\* a period is modelled by its calendar day, which the formatting keeps.
free_cash_flow_try(r) ==
    IF r.cashflow.k = "raise" THEN Exception
    ELSE IF r.cashflow.k \in {"none", "empty", "norow"}
         THEN HTTPException(404, "No cash flow data found.")
    ELSE LET fcf_data == dropna(r.cashflow.row)
         IN  IF fcf_data # <<>> /\ r.cashflow.index # "timestamp" THEN Exception
             ELSE Return([free_cash_flow |-> fcf_data])

get_free_cash_flow_response(r) ==
    ExceptClauses(free_cash_flow_try(r), "Data fetch blocked by provider.")

----------------------------------------------------------------------------
(* search_ticker, lines 37-51.                                             *)

\* Line 43
valid_types == {"EQUITY", "ETF", "MUTUALFUND"}

\* Line 49: results[:6]
SearchLimit == 6

\* Lines 44-48: the comprehension filters on quoteType first and reads
\* q["symbol"] of every quote that passes; one KeyError fails all of it.
search_results(quotes) ==
    LET passing == SelectSeq(quotes, LAMBDA q : q.quoteType \in valid_types)
    IN  IF \E i \in 1..Len(passing) : ~passing[i].has_symbol
        THEN Exception
        ELSE Return([i \in 1..Len(passing) |->
                 [symbol |-> passing[i].id,
                  name |-> IF passing[i].has_shortname
                           THEN "shortname" ELSE "Unknown"]])

\* results[:6]
truncate_All(results) == results

truncate(results) ==
    SubSeq(results, 1, IF Len(results) < SearchLimit THEN Len(results) ELSE SearchLimit)

\* Lines 40-51
search_ticker_response(r) ==
    LET res == IF r.k \in {"raise", "nonjson", "notdict"} THEN Exception
               ELSE search_results(IF r.k = "noquotes" THEN <<>> ELSE r.quotes)
    IN  IF res.kind = "exception" THEN Return([results |-> <<>>])
        ELSE Return([results |-> truncate(res.body)])

----------------------------------------------------------------------------
(* What the provider may answer.                                           *)

MaxLen == 3
MaxQuotes == 7

\* free-cash-flow values of a period (NaN: the provider has no figure)
FcfVals == {NaN, Q(0, 1), Q(100, 1), Q(110, 1), Q(121, 1), Q(-50, 1)}

Perms(n) == {p \in [1..n -> 1..n] : \A i, j \in 1..n : p[i] = p[j] => i = j}

\* the "Free Cash Flow" row with n period columns: the values v in the
\* column order p
Row(n, p, v) == [i \in 1..n |-> [date |-> p[i], val |-> v[i]]]

NoCashflow(kind) == [k |-> kind, index |-> "timestamp", row |-> <<>>]

NoCashflows == {NoCashflow(kind) : kind \in {"raise", "none", "empty", "norow"}}

RowsCashflow(row) == [k |-> "rows", index |-> "timestamp", row |-> row]

BaseCashflow ==
    RowsCashflow(<<[date |-> 2, val |-> Q(110, 1)], [date |-> 1, val |-> Q(100, 1)]>>)

AllMissingCashflow ==
    RowsCashflow(<<[date |-> 2, val |-> NaN], [date |-> 1, val |-> NaN]>>)

BaseInfo ==
    [k |-> "dict", currentPrice |-> Q(100, 1), previousClose |-> Q(90, 1),
     sharesOutstanding |-> Q(10, 1), impliedSharesOutstanding |-> Q(20, 1),
     beta |-> One]

Infos ==
    {[BaseInfo EXCEPT !.k = kind] : kind \in {"raise", "none"}}
    \cup {[k |-> "dict", currentPrice |-> cp, previousClose |-> pc,
           sharesOutstanding |-> so, impliedSharesOutstanding |-> iso,
           beta |-> One] :
            cp \in {Absent, Null, Q(150, 1)}, pc \in {Absent, Null, Q(140, 1)},
            so \in {Absent, Null, Q(10, 1)}, iso \in {Absent, Q(20, 1)}}

BaseFastInfo == [lastPrice |-> Q(130, 1), shares |-> Q(30, 1)]

FastInfos ==
    {[lastPrice |-> lp, shares |-> sh] :
        lp \in {Absent, Null, Raise, Q(130, 1)}, sh \in {Absent, Raise, Q(30, 1)}}

NoStatement(kind) ==
    [k |-> kind, cash |-> Absent, debt |-> Absent,
     ie |-> Absent, tp |-> Absent, pi |-> Absent]

BaseBalanceSheet == [NoStatement("rows") EXCEPT !.cash = Q(500, 1), !.debt = Q(1000, 1)]

BalanceSheets ==
    {NoStatement(kind) : kind \in {"raise", "none", "empty"}}
    \cup {[NoStatement("rows") EXCEPT !.cash = c, !.debt = d] :
            c \in {Absent, Raise, NaN, Null, Q(0, 1), Q(500, 1)},
            d \in {Absent, Raise, NaN, Q(0, 1), Q(1000, 1), Q(-200, 1)}}

BaseIncomeStmt ==
    [NoStatement("rows") EXCEPT !.ie = Q(50, 1), !.tp = Q(30, 1), !.pi = Q(100, 1)]

IncomeStmts ==
    {NoStatement(kind) : kind \in {"raise", "none", "empty"}}
    \cup {[NoStatement("rows") EXCEPT !.ie = e, !.tp = t, !.pi = p] :
            e \in {Absent, Raise, NaN, Null, PInf, Q(0, 1), Q(50, 1)},
            t \in {Absent, Raise, NaN, Q(0, 1), Q(30, 1)},
            p \in {Absent, Raise, NaN, Q(0, 1), Q(100, 1), Q(-100, 1)}}

\* the 10-year treasury yield quote, in percent
BaseProxy == Q(45, 10)

Proxies == {Raise, NaN, Q(45, 10), Q(42, 10)}

Base ==
    [cashflow |-> BaseCashflow, info |-> BaseInfo, fast_info |-> BaseFastInfo,
     balance_sheet |-> BaseBalanceSheet, income_stmt |-> BaseIncomeStmt,
     proxy |-> BaseProxy]

\* every way of offering price and shares, without statements, with a usable
\* and with an unusable cash-flow statement
PricingRecords ==
    {[Base EXCEPT !.cashflow = c, !.info = i, !.fast_info = f,
                  !.balance_sheet = NoStatement("none"),
                  !.income_stmt = NoStatement("none")] :
        c \in {BaseCashflow, AllMissingCashflow, NoCashflow("none"), NoCashflow("raise")},
        i \in Infos, f \in FastInfos}

\* every way of offering the two optional statements
StatementRecords ==
    {[Base EXCEPT !.balance_sheet = b, !.income_stmt = i] :
        b \in BalanceSheets, i \in IncomeStmts}

\* capital structures and betas that move the WACC across its clamp
CapitalRecords ==
    {[Base EXCEPT !.info.currentPrice = cp, !.info.beta = b,
                  !.balance_sheet.debt = d, !.income_stmt.ie = e,
                  !.income_stmt.tp = t, !.proxy = y] :
        cp \in {Q(1, 1), Q(100, 1)},
        b \in {Absent, Null, NaN, Bad, Q(-1, 1), Q(0, 1), Q(1, 2), Q(1, 1), Q(2, 1), Q(3, 1)},
        d \in {Q(0, 1), Q(1000, 1), Q(3000, 1)},
        e \in {Q(50, 1), Q(300, 1)},
        t \in {Q(30, 1), Q(100, 1)},
        y \in Proxies}

QuoteKinds ==
    {[quoteType |-> "EQUITY", has_symbol |-> TRUE, has_shortname |-> TRUE],
     [quoteType |-> "ETF", has_symbol |-> TRUE, has_shortname |-> FALSE],
     [quoteType |-> "MUTUALFUND", has_symbol |-> FALSE, has_shortname |-> TRUE],
     [quoteType |-> "CURRENCY", has_symbol |-> FALSE, has_shortname |-> TRUE]}

\* the provider's quotes q, the i-th carrying the symbol i
Quotes(n, q) ==
    [i \in 1..n |-> [id |-> i, quoteType |-> q[i].quoteType,
                     has_symbol |-> q[i].has_symbol,
                     has_shortname |-> q[i].has_shortname]]

\* answers of the search endpoint that are no JSON object with quotes
NoQuotes(kind) == [k |-> kind, quotes |-> <<>>]

----------------------------------------------------------------------------
(* The state machine.  The handlers keep no state between requests        *)
(* (main.py has no module-level data they write), so a behaviour is the    *)
(* application after start-up followed by one request.                     *)

Init ==
    /\ endpoint = "none"
    /\ raw = <<>>
    /\ out = [kind |-> "none", status |-> 0, detail |-> "", body |-> <<>>]

search_request(r) ==
    /\ endpoint' = "search"
    /\ raw' = r
    /\ out' = search_ticker_response(r)

search_ticker ==
    /\ endpoint = "none"
    /\ \/ \E kind \in {"raise", "nonjson", "notdict", "noquotes"} :
            search_request(NoQuotes(kind))
       \/ \E n \in 0..MaxQuotes : \E q \in [1..n -> QuoteKinds] :
            search_request([k |-> "json", quotes |-> Quotes(n, q)])

fcf_request(r) ==
    /\ endpoint' = "fcf"
    /\ raw' = r
    /\ out' = get_free_cash_flow_response(r)

\* every cash-flow answer, also with period labels that are not timestamps
get_free_cash_flow ==
    /\ endpoint = "none"
    /\ \/ \E c \in NoCashflows : fcf_request([Base EXCEPT !.cashflow = c])
       \/ \E n \in 1..MaxLen : \E p \in Perms(n), v \in [1..n -> FcfVals] :
            fcf_request([Base EXCEPT !.cashflow = RowsCashflow(Row(n, p, v))])
       \/ \E c \in {BaseCashflow, AllMissingCashflow} :
            fcf_request([Base EXCEPT !.cashflow = [c EXCEPT !.index = "other"]])

valuation_request(r) ==
    /\ endpoint' = "valuation"
    /\ raw' = r
    /\ out' = get_valuation_response(r)

\* every cash-flow answer with the other data as in Base, and the pricing,
\* statement and capital-structure records
get_valuation ==
    /\ endpoint = "none"
    /\ \/ \E c \in NoCashflows : valuation_request([Base EXCEPT !.cashflow = c])
       \/ \E n \in 1..MaxLen : \E p \in Perms(n), v \in [1..n -> FcfVals] :
            valuation_request([Base EXCEPT !.cashflow = RowsCashflow(Row(n, p, v))])
       \/ \E r \in PricingRecords : valuation_request(r)
       \/ \E r \in StatementRecords : valuation_request(r)
       \/ \E r \in CapitalRecords : valuation_request(r)

Next == search_ticker \/ get_free_cash_flow \/ get_valuation

Spec == Init /\ [][Next]_vars

----------------------------------------------------------------------------
(* Properties.                                                             *)

Valuation == endpoint = "valuation"

ValuationOk == endpoint = "valuation" /\ out.kind = "ok"

\* the cash-flow statement has a "Free Cash Flow" row with at least one figure
FcfUsable(c) == c.k = "rows" /\ \E i \in 1..Len(c.row) : ~IsNan(c.row[i].val)

\* the statement is None or empty, has no such row, or the row holds no figure
FcfUnusable(c) ==
    \/ c.k \in {"none", "empty", "norow"}
    \/ c.k = "rows" /\ \A i \in 1..Len(c.row) : IsNan(c.row[i].val)

\* no read of the two optional statements raises
NoStatementReadRaises(r) ==
    /\ r.balance_sheet.k # "raise"
    /\ r.balance_sheet.cash.k # "raise"
    /\ r.balance_sheet.debt.k # "raise"
    /\ r.income_stmt.k # "raise"
    /\ r.income_stmt.ie.k # "raise"
    /\ r.income_stmt.tp.k # "raise"
    /\ r.income_stmt.pi.k # "raise"

\* each optional field read in a try block of its own
IsolatedCash(r) == read_cash(r.balance_sheet, StatementDefaults).total_cash

IsolatedDebt(r) ==
    IF r.balance_sheet.k = "raise" THEN Zero
    ELSE read_debt(r.balance_sheet, StatementDefaults).total_debt

IsolatedTaxRate(r) ==
    IF r.income_stmt.k = "raise" THEN Q(21, 100)
    ELSE read_tax_rate(r.income_stmt, StatementDefaults).tax_rate

IsolatedCostOfDebt(r) ==
    read_interest_expense(r.income_stmt,
        [StatementDefaults EXCEPT !.total_debt = IsolatedDebt(r)]).cost_of_debt

\* C1: in get_valuation the fallback to defaults is per field: whatever
\* optional reads raise, a field whose own read succeeds has its computed
\* value; a failing interest-expense read does not leave taxRate at 0.21 when
\* tax provision and pretax income are readable.
C1_FieldIsolation ==
    ValuationOk =>
        /\ out.body.total_cash = IsolatedCash(raw)
        /\ out.body.total_debt = IsolatedDebt(raw)
        /\ out.body.cost_of_debt = IsolatedCostOfDebt(raw)
        /\ out.body.tax_rate = IsolatedTaxRate(raw)

\* C2: get_valuation answers 404, never 500 and never a valuation, whenever
\* the free-cash-flow data is unusable, whatever the other provider fields hold.
C2_UnusableFcfIs404 ==
    (Valuation /\ FcfUnusable(raw.cashflow)) =>
        (out.kind = "http" /\ out.status = 404)

C2_Witness ==
    /\ Valuation
    /\ raw.cashflow = AllMissingCashflow
    /\ raw.info.k = "raise"
    /\ raw.fast_info.lastPrice.k = "raise"
    /\ out.status = 404
    /\ out.detail = "Free Cash Flow data is empty."

\* the first source that yields a number, else the literal fallback
FirstSuccess(a, b, c, fallback) ==
    IF IsFloat(a) THEN a ELSE IF IsFloat(b) THEN b ELSE IF IsFloat(c) THEN c
    ELSE fallback

\* C3: price and shares are the first source that succeeds (info field, second
\* info field, fast quote, literal); a failing or null source only moves on to
\* the next one and never fails a request whose cash-flow series is usable.
C3_FirstSuccessWins ==
    (/\ Valuation
     /\ FcfUsable(raw.cashflow)
     /\ raw.info.k # "raise"
     /\ raw.info.beta.k # "bad") =>
        /\ out.kind = "ok"
        /\ out.body.current_price =
             FirstSuccess(info_or_empty(raw.info).currentPrice,
                          info_or_empty(raw.info).previousClose,
                          raw.fast_info.lastPrice, Q(100, 1))
        /\ out.body.shares =
             FirstSuccess(info_or_empty(raw.info).sharesOutstanding,
                          info_or_empty(raw.info).impliedSharesOutstanding,
                          raw.fast_info.shares, Q(1000000, 1))

\* C4: the risk-free rate of the CAPM is the proxy yield / 100 when the proxy
\* quote is fetched and finite, and 0.042 only otherwise.
C4_RiskFreeFromProxy ==
    ValuationOk =>
        out.body.risk_free_rate =
            (IF IsFinite(raw.proxy) THEN Div(raw.proxy, Q(100, 1)) ELSE Q(42, 1000))

FiniteWaccInputs ==
    /\ IsFinite(out.body.current_price)
    /\ IsFinite(out.body.shares)
    /\ IsFinite(out.body.total_debt)
    /\ IsFinite(out.body.cost_of_debt)
    /\ IsFinite(out.body.tax_rate)
    /\ IsFinite(out.body.beta)

\* C5: for finite price, shares, debt, cost of debt, tax rate and beta the WACC
\* used and reported lies in [0.06, 0.15], is above the perpetual growth rate,
\* the guard "wacc <= perpetual_growth" is not taken and the terminal-value
\* denominator is strictly positive.
C5_WaccInRange ==
    (ValuationOk /\ FiniteWaccInputs) =>
        /\ Le(Q(6, 100), out.body.wacc)
        /\ Le(out.body.wacc, Q(15, 100))
        /\ Lt(perpetual_growth, out.body.wacc)
        /\ ~out.body.guard_taken
        /\ Lt(Zero, out.body.tv_denominator)

C5_Witness ==
    /\ ValuationOk
    /\ FiniteWaccInputs
    /\ Lt(out.body.wacc_unclamped, perpetual_growth)
    /\ out.body.wacc = Q(6, 100)

\* the changes value[t]/value[t-1] - 1 of the pairs with value[t-1] # 0
RECURSIVE NonZeroPairChanges(_, _)
NonZeroPairChanges(s, i) ==
    IF i > Len(s) THEN <<>>
    ELSE (IF s[i-1].val.n # 0
          THEN <<[date |-> s[i].date, val |-> Sub(Div(s[i].val, s[i-1].val), One)]>>
          ELSE <<>>) \o NonZeroPairChanges(s, i + 1)

MeanOverNonZeroPairs(s) ==
    LET changes == NonZeroPairChanges(s, 2)
    IN  IF Len(s) < 2 \/ changes = <<>> \/ ~IsFinite(mean(changes))
        THEN Q(5, 100) ELSE mean(changes)

\* C6: the unclamped growth rate is the mean of the changes over the pairs with
\* value[t-1] # 0, and 0.05 with fewer than two data points or a non-finite
\* mean; a zero followed by a non-zero value does not produce an infinite g.
C6_GrowthIsFiniteMean ==
    ValuationOk =>
        out.body.avg_growth = MeanOverNonZeroPairs(sort_index(dropna(raw.cashflow.row)))

\* C7: for every non-empty free-cash-flow series the growth rate g used and
\* reported lies in [0.02, 0.15].
C7_GrowthInRange ==
    ValuationOk =>
        /\ IsFinite(out.body.g)
        /\ Le(Q(2, 100), out.body.g)
        /\ Le(out.body.g, Q(15, 100))

C7_Witness ==
    /\ ValuationOk
    /\ IsFinite(out.body.avg_growth)
    /\ Lt(out.body.avg_growth, Zero)
    /\ Lt(out.body.last_fcf, Zero)
    /\ out.body.g = Q(2, 100)

\* C8: costOfDebt is interestExpense / totalDebt whenever totalDebt > 0 and the
\* interest-expense figure is present and finite (0 included), and 0.05 only
\* when totalDebt is not > 0 or the figure is absent or non-finite.
C8_CostOfDebt ==
    (ValuationOk /\ NoStatementReadRaises(raw)) =>
        out.body.cost_of_debt =
            (IF /\ Lt(Zero, out.body.total_debt)
                /\ raw.income_stmt.k = "rows"
                /\ IsFinite(raw.income_stmt.ie)
             THEN Div(raw.income_stmt.ie, out.body.total_debt)
             ELSE Q(5, 100))

\* the provider failed: no answer, no JSON object, or a quote of a searched
\* type without a symbol
SearchFailure(r) ==
    \/ r.k \in {"raise", "nonjson", "notdict"}
    \/ \E i \in 1..Len(r.quotes) :
         r.quotes[i].quoteType \in valid_types /\ ~r.quotes[i].has_symbol

ThreeOutcomes ==
    \/ out.kind = "ok" /\ out.status = 200
    \/ out.kind = "http" /\ out.status \in {404, 500}

\* a step of the valuation raises something that is no HTTPException
SomeStepRaises(r) ==
    \/ r.cashflow.k = "raise"
    \/ /\ FcfUsable(r.cashflow)
       /\ \/ r.info.k = "raise"
          \/ r.fast_info.lastPrice.k = "raise"
          \/ r.fast_info.shares.k = "raise"
          \/ ~NoStatementReadRaises(r)
          \/ r.info.beta.k = "bad"

\* C10 as stated: three outcomes, and every exception other than a deliberate
\* 404, raised at any step, ends as a 500.
C10_EveryExceptionIs500 ==
    Valuation =>
        /\ ThreeOutcomes
        /\ SomeStepRaises(raw) => out.status = 500

\* price and shares are resolved without an exception
PricingResolved(r) ==
    /\ r.info.k # "raise"
    /\ current_price(info_or_empty(r.info), r.fast_info).k # "raise"
    /\ shares_outstanding(info_or_empty(r.info), r.fast_info).k # "raise"

\* C10, amended: every request to /fcf and /valuation ends as a success, a
\* deliberate 404 with the detail it was raised with, or a 500; an exception
\* that leaves the try body is a 500, one raised while price and shares are
\* resolved is the deliberate 404 "Missing core pricing data.", and one raised
\* by an optional statement read is swallowed.
C10_Outcomes ==
    /\ endpoint \in {"fcf", "valuation"} => ThreeOutcomes
    /\ endpoint = "fcf" =>
        /\ raw.cashflow.k \in {"none", "empty", "norow"} =>
             (out.status = 404 /\ out.detail = "No cash flow data found.")
        /\ (\/ raw.cashflow.k = "raise"
            \/ raw.cashflow.index # "timestamp" /\ FcfUsable(raw.cashflow)) =>
             (out.status = 500 /\ out.detail = "Data fetch blocked by provider.")
        /\ out.status = 404 => raw.cashflow.k \in {"none", "empty", "norow"}
    /\ Valuation =>
        /\ raw.cashflow.k \in {"none", "empty", "norow"} =>
             (out.status = 404 /\ out.detail = "No Free Cash Flow data found.")
        /\ raw.cashflow.k = "rows" /\ FcfUnusable(raw.cashflow) =>
             (out.status = 404 /\ out.detail = "Free Cash Flow data is empty.")
        /\ raw.cashflow.k = "raise" =>
             (out.status = 500 /\ out.detail = "Calculation blocked or failed.")
        /\ FcfUsable(raw.cashflow) =>
             /\ raw.info.k = "raise" =>
                  (out.status = 500 /\ out.detail = "Calculation blocked or failed.")
             /\ raw.info.k # "raise" /\ ~PricingResolved(raw) =>
                  (out.status = 404 /\ out.detail = "Missing core pricing data.")
             /\ PricingResolved(raw) /\ raw.info.beta.k = "bad" =>
                  (out.status = 500 /\ out.detail = "Calculation blocked or failed.")
             /\ PricingResolved(raw) /\ raw.info.beta.k # "bad" => out.status = 200

C10_Witness ==
    /\ Valuation
    /\ FcfUsable(raw.cashflow)
    /\ PricingResolved(raw)
    /\ raw.info.beta.k = "bad"
    /\ out.kind = "http"
    /\ out.status = 500

====
